---- MODULE Spec2Model ----
(***************************************************************************)
(* Model of converter.py: the video -> MP3 batch converter.                *)
(*                                                                         *)
(* File names are sequences of one-character strings, so that splitext,    *)
(* lower(), endswith() and the resolution-tag regular expression are       *)
(* computed character by character as the Python code computes them.       *)
(* Paths are records [dir |-> sequence of directory names, name |-> name]. *)
(***************************************************************************)
EXTENDS Integers, Sequences, FiniteSets, TLC

(***************************************************************************)
(* Bounds of the model.                                                    *)
(***************************************************************************)
MaxFiles == 2        \* video files present under the source root
MaxRuns == 2         \* consecutive calls of convert_videos_to_mp3
MaxInterrupts == 1   \* Ctrl+C signals delivered in one behaviour
MaxPre == 1          \* files already present under the output root
MaxFaults == 1       \* tool failures and unexpected exceptions in one behaviour

(***************************************************************************)
(* Characters and strings.                                                 *)
(***************************************************************************)
LowerTable ==
  ("A" :> "a") @@ ("B" :> "b") @@ ("C" :> "c") @@ ("K" :> "k") @@
  ("M" :> "m") @@ ("P" :> "p") @@ ("R" :> "r") @@ ("V" :> "v")

\* str.lower() on one character
LowerChar(c) == IF c \in DOMAIN LowerTable THEN LowerTable[c] ELSE c

\* str.lower()
Lower(s) == [i \in 1..Len(s) |-> LowerChar(s[i])]

\* str.endswith(suffix)
EndsWith(s, suf) ==
  /\ Len(suf) <= Len(s)
  /\ SubSeq(s, Len(s) - Len(suf) + 1, Len(s)) = suf

\* supported_extensions of find_video_files
supported_extensions ==
  { <<".", "m", "p", "4">>, <<".", "m", "o", "v">>, <<".", "m", "k", "v">>,
    <<".", "a", "v", "i">>, <<".", "m", "4", "v">>, <<".", "f", "l", "v">>,
    <<".", "w", "e", "b", "m">> }

\* filename.lower().endswith(supported_extensions)
HasVideoExtension(name) ==
  \E e \in supported_extensions : EndsWith(Lower(name), e)

\* index of the last "." of s, 0 if there is none (str.rfind + 1)
LastDot(s) ==
  IF \E i \in 1..Len(s) : s[i] = "."
  THEN CHOOSE i \in 1..Len(s) :
         /\ s[i] = "."
         /\ \A j \in (i + 1)..Len(s) : s[j] # "."
  ELSE 0

\* os.path.splitext on a file name without separators: the extension starts
\* at the last dot, unless only dots precede it (leading dots are no extension)
splitext(name) ==
  LET d == LastDot(name) IN
  IF d > 0 /\ \E i \in 1..(d - 1) : name[i] # "."
  THEN [base |-> SubSeq(name, 1, d - 1), ext |-> SubSeq(name, d, Len(name))]
  ELSE [base |-> name, ext |-> <<>>]

\* the alternatives (720|480|360|240) of resolution_pattern
Resolutions ==
  { <<"7", "2", "0">>, <<"4", "8", "0">>, <<"3", "6", "0">>, <<"2", "4", "0">> }

\* s[from..from+5] matches _r(720|480|360|240)P under re.IGNORECASE
TagAt(s, from) ==
  /\ from >= 1
  /\ from + 5 <= Len(s)
  /\ s[from] = "_"
  /\ LowerChar(s[from + 1]) = "r"
  /\ SubSeq(s, from + 2, from + 4) \in Resolutions
  /\ LowerChar(s[from + 5]) = "p"

\* clean_filename: resolution_pattern.sub('', base_name).  "$" matches at the
\* end of the string and also just before a newline that ends the string.
clean_filename(base_name) ==
  LET n == Len(base_name) IN
  IF n >= 1 /\ base_name[n] = "\n" /\ TagAt(base_name, n - 6)
  THEN SubSeq(base_name, 1, n - 7) \o <<"\n">>
  ELSE IF TagAt(base_name, n - 5)
       THEN SubSeq(base_name, 1, n - 6)
       ELSE base_name

(***************************************************************************)
(* The directories of a task and the candidate entries of the source tree. *)
(***************************************************************************)
source_dir == <<"in">>
output_dir == <<"out">>

\* The candidate entries, in the order in which os.listdir and os.walk list
\* them (os.walk lists the files of the root before those of a subdirectory).
Entries ==
  << [dir |-> <<"in">>, name |-> <<"a", ".", "m", "p", "4">>, kind |-> "file"],
     [dir |-> <<"in">>,
      name |-> <<"a", "_", "r", "7", "2", "0", "P", ".", "m", "p", "4">>,
      kind |-> "file"],
     [dir |-> <<"in">>, name |-> <<"a", ".", "M", "K", "V">>, kind |-> "file"],
     [dir |-> <<"in">>, name |-> <<"b", ".", "t", "x", "t">>, kind |-> "file"],
     [dir |-> <<"in">>, name |-> <<"c", ".", "m", "p", "4">>,
      kind |-> "special"],
     [dir |-> <<"in", "sub">>, name |-> <<"a", ".", "m", "p", "4">>,
      kind |-> "file"],
     [dir |-> <<"in">>, name |-> <<"d", ".", "m", "p", "4">>, kind |-> "dir"] >>

EntryIds == 1..Len(Entries)

\* the entries whose name passes the extension test of lines 48 and 53
VideoNamed == { e \in EntryIds : HasVideoExtension(Entries[e].name) }

\* find_video_files: the entries the generator yields for a tree.  os.walk
\* lists every non-directory entry of every directory; the non-recursive
\* branch lists the root and keeps what os.path.isfile accepts.
find_video_files(t, rec) ==
  IF rec
  THEN { e \in t : Entries[e].kind # "dir" /\ e \in VideoNamed }
  ELSE { e \in t : /\ Entries[e].dir = source_dir
                   /\ Entries[e].kind = "file"
                   /\ e \in VideoNamed }

\* os.path.relpath(os.path.dirname(video_filepath), source_dir)
relpath(dir, start) ==
  IF dir = start THEN <<".">> ELSE SubSeq(dir, Len(start) + 1, Len(dir))

\* variant: the extension is appended in the case the source name has
Mp3Filename_KeepCase(name, app) ==
  LET p == splitext(name)
      cleaned_base_name == clean_filename(p.base)
  IN IF app
     THEN cleaned_base_name \o <<"_">> \o SubSeq(p.ext, 2, Len(p.ext))
            \o <<".", "m", "p", "3">>
     ELSE cleaned_base_name \o <<".", "m", "p", "3">>

\* mp3_filename of the loop body
Mp3Filename(name, app) ==
  LET p == splitext(name)
      cleaned_base_name == clean_filename(p.base)
  IN IF app
     THEN cleaned_base_name \o <<"_">> \o Lower(SubSeq(p.ext, 2, Len(p.ext)))
            \o <<".", "m", "p", "3">>
     ELSE cleaned_base_name \o <<".", "m", "p", "3">>

\* final_output_dir of the loop body
FinalOutputDir(e) ==
  LET relative_path == relpath(Entries[e].dir, source_dir)
  IN IF relative_path # <<".">> THEN output_dir \o relative_path
     ELSE output_dir

\* mp3_filepath: the canonical destination path of an entry
Mp3Filepath(e, app) ==
  [dir |-> FinalOutputDir(e), name |-> Mp3Filename(Entries[e].name, app)]

\* mp3_temp_path = mp3_filepath + ".tmp"
TempPath(p) == [dir |-> p.dir, name |-> p.name \o <<".", "t", "m", "p">>]

(***************************************************************************)
(* The file system under the output root.                                  *)
(***************************************************************************)
\* content of a file that was there before the first run
OldContent == [kind |-> "old", src |-> 0, run |-> 0]

\* variant: the existence check never finds the file
PathExists_Never(f, p) == p \in {}

\* os.path.exists
PathExists(f, p) == p \in DOMAIN f

\* a file created or overwritten at path p
Put(f, p, c) == [q \in (DOMAIN f) \cup {p} |-> IF q = p THEN c ELSE f[q]]

\* variant: the file stays where it is
Remove_Nothing(f, p) == f

\* os.remove
Remove(f, p) == [q \in (DOMAIN f) \ {p} |-> f[q]]

\* os.rename(src, dst): dst takes the content of src, src disappears
Rename(f, src, dst) == Remove(Put(f, dst, f[src]), src)

\* mp3_filepath = None / mp3_temp_path = None
NoPath == [dir |-> <<>>, name |-> <<>>]

(***************************************************************************)
(* State.                                                                  *)
(***************************************************************************)
VARIABLES
  tree,              \* entries present under source_dir
  recursive,         \* argument recursive
  append_extension,  \* argument append_extension
  run,               \* number of the current call of convert_videos_to_mp3
  pass,              \* 1: the loop of lines 83-156, 2: the loop of lines 164-207
  pc,                \* position of the call
  video,             \* video_filepath (an entry id, 0 before the first file)
  yielded,           \* entries the generator has yielded in this loop, in order
  counters,          \* counters
  mp3_filepath,      \* mp3_filepath
  mp3_temp_path,     \* mp3_temp_path
  fs,                \* files under output_dir: path -> content
  dirs,              \* directories existing under (and including) output_dir
  reported,          \* the loops whose Summary line was logged in this run
  fs0,               \* fs when the current run started
  inv,               \* entry -> number of ffmpeg invocations in this run
  toolFailed,        \* entries for which ffmpeg exited non-zero in this run
  outcome,           \* entry -> counter incremented for it in this loop
  interrupted,       \* a KeyboardInterrupt was received in this run
  intr,              \* KeyboardInterrupts received so far
  faults,            \* tool failures and unexpected exceptions so far
  ffmpeg_found,      \* an executable named ffmpeg is on the execution path
  args,              \* args of main: the parsed command line
  cfgfile,           \* the file args.config names: its state and content
  config,            \* config of main
  final_config,      \* final_config of main
  mainpc,            \* position of main
  status,            \* exit status of the process, -1 while it runs
  called,            \* the source_dir of each call of convert_videos_to_mp3
  clean_arg,          \* argument of a call of clean_filename
  clean_result       \* what that call returned

vars ==
  << tree, recursive, append_extension, run, pass, pc, video, yielded,
     counters, mp3_filepath, mp3_temp_path, fs, dirs, reported, fs0, inv,
     toolFailed, outcome, interrupted, intr, faults, ffmpeg_found, args,
     cfgfile, config, final_config, mainpc, status, called, clean_arg,
     clean_result >>

\* main's own state, and the state of a call of clean_filename
mainState == << args, cfgfile, config, final_config, mainpc, status, called >>
names == << clean_arg, clean_result >>

\* what stays fixed while convert_videos_to_mp3 runs: its arguments, the
\* source tree, the execution path, and the caller's state
task ==
  << tree, recursive, append_extension, ffmpeg_found, mainState, names >>
ghost == << inv, toolFailed, interrupted, intr >>

\* an operation of the loop body fails: the environment's choice, bounded
Fault == faults < MaxFaults /\ faults' = faults + 1
NoFault == UNCHANGED faults

\* counters = {'converted': 0, 'skipped': 0, 'failed': 0, 'found': 0}
ZeroCounters == [converted |-> 0, skipped |-> 0, failed |-> 0, found |-> 0]

\* counters['found'] += 1
CountFound(c) == [c EXCEPT !.found = @ + 1]
\* variant: a skipped file is counted as converted
CountSkipped_AsConverted(c) == [c EXCEPT !.converted = @ + 1]

\* counters['skipped'] += 1
CountSkipped(c) == [c EXCEPT !.skipped = @ + 1]
\* counters['converted'] += 1
CountConverted(c) == [c EXCEPT !.converted = @ + 1]
\* variant: a failed file is not counted
CountFailed_Forgotten(c) == c

\* counters['failed'] += 1
CountFailed(c) == [c EXCEPT !.failed = @ + 1]

Range(s) == { s[i] : i \in 1..Len(s) }

\* the files the generator of this task yields
Discovered == find_video_files(tree, recursive)

\* mp3_filepath of every candidate entry, for both values of append_extension
Destinations == [app \in BOOLEAN |-> [e \in EntryIds |-> Mp3Filepath(e, app)]]

\* the canonical destination path of a discovered entry in this task
Dest(e) == Destinations[append_extension][e]

\* the path ffmpeg writes to: the temp file in loop 1, the destination in loop 2
ToolOutput == IF pass = 1 THEN mp3_temp_path ELSE mp3_filepath

\* the paths a run of this task can create under the output root
TaskPaths(t, rec, app) ==
  UNION { { Mp3Filepath(e, app), TempPath(Mp3Filepath(e, app)) } :
          e \in find_video_files(t, rec) }

\* the entries a task can discover: regular files with a video extension
VideoFiles == { e \in VideoNamed : Entries[e].kind = "file" }

(***************************************************************************)
(* main(): the values of the command line and of the configuration file.   *)
(* Python values are written as strings: "None", "True", "False", and      *)
(* "absent" for a key the configuration file does not hold.                *)
(***************************************************************************)

\* the truth value Python gives a value in `a or b` and `if a`
Truthy(v) == v \notin {"None", "False", "", "absent"}

\* a or b
Or(a, b) == IF Truthy(a) THEN a ELSE b

\* config.get(key, default); config.get(key) is Get(c, key, "None")
Get(c, key, default) == IF c[key] = "absent" THEN default ELSE c[key]

\* config = {} (line 230), with no 'tasks' list
EmptyConfig ==
  [input_directory |-> "absent", output_directory |-> "absent",
   bitrate |-> "absent", log_file |-> "absent",
   recursive_search |-> "absent", append_source_extension |-> "absent",
   tasks |-> <<>>]

\* final_config of lines 238-245
MergeConfig(a, c) ==
  [input |-> Or(a.input, Get(c, "input_directory", "None")),
   output |-> Or(a.output, Get(c, "output_directory", "None")),
   bitrate |-> Or(a.bitrate, Get(c, "bitrate", "192k")),
   logfile |-> Or(a.logfile, Get(c, "log_file", "None")),
   recursive |-> IF a.recursive # "None" THEN a.recursive
                 ELSE Get(c, "recursive_search", "False"),
   append_extension |-> IF a.append_extension = "False"
                        THEN a.append_extension
                        ELSE Get(c, "append_source_extension", "True")]

\* final_config before line 238 is reached
NoConfig ==
  [input |-> "None", output |-> "None", bitrate |-> "None",
   logfile |-> "None", recursive |-> "None", append_extension |-> "None"]

\* the directories os.path.isdir accepts
ExistingDirs == {"in", "in2"}

\* command lines that name both directories and no configuration file
TaskArgs ==
  [config : {"None"}, input : {"in"}, output : {"out"}, bitrate : {"None"},
   logfile : {"None"}, recursive : {"None", "True"},
   append_extension : {"True", "False"}]

\* clean_result before clean_filename has returned
Unset == << "unset" >>

\* no call of clean_filename is being followed
NamesIdle == clean_arg = <<>> /\ clean_result = Unset

\* the state of main at line 254, where it calls convert_videos_to_mp3
MainAtCall ==
  /\ args \in TaskArgs
  /\ cfgfile = [state |-> "ok", content |-> EmptyConfig]
  /\ config = EmptyConfig
  /\ final_config = MergeConfig(args, config)
  /\ mainpc = "convert"
  /\ status = -1
  /\ called = << final_config.input >>

Init ==
  /\ MainAtCall
  /\ NamesIdle
  /\ ffmpeg_found \in BOOLEAN
  /\ tree \in { t \in SUBSET VideoFiles : Cardinality(t) <= MaxFiles }
  /\ recursive = Truthy(final_config.recursive)
  /\ append_extension = Truthy(final_config.append_extension)
  /\ \E pre \in SUBSET TaskPaths(tree, recursive, append_extension) :
       /\ Cardinality(pre) <= MaxPre
       /\ fs = [p \in pre |-> OldContent]
       /\ dirs = { p.dir : p \in pre }
  /\ fs0 = fs
  /\ run = 1
  /\ pass = 1
  /\ pc = "loop"
  /\ video = 0
  /\ yielded = <<>>
  /\ counters = ZeroCounters
  /\ mp3_filepath = NoPath
  /\ mp3_temp_path = NoPath
  /\ reported = <<>>
  /\ inv = [e \in EntryIds |-> 0]
  /\ toolFailed = {}
  /\ outcome = [e \in EntryIds |-> "none"]
  /\ interrupted = FALSE
  /\ intr = 0
  /\ faults = 0

(***************************************************************************)
(* One call of convert_videos_to_mp3.  The function body holds two loops:  *)
(* lines 83-156 (temp file then rename, inside try/except                  *)
(* KeyboardInterrupt/finally) and, after the string literal of lines       *)
(* 157-159, lines 162-207 (direct write, no KeyboardInterrupt handler).    *)
(* Both are executed by every call, the second with fresh counters.        *)
(***************************************************************************)

\* for video_filepath in find_video_files(...): counters['found'] += 1
\* (lines 84-87 and 164-165), or the generator is exhausted
LoopNext ==
  /\ pc = "loop"
  /\ \/ \E e \in Discovered \ Range(yielded) :
          /\ \A d \in Discovered \ Range(yielded) : e <= d
          /\ video' = e
          /\ yielded' = Append(yielded, e)
          /\ counters' = CountFound(counters)
          /\ IF pass = 1
             THEN mp3_filepath' = NoPath /\ mp3_temp_path' = NoPath
             ELSE UNCHANGED << mp3_filepath, mp3_temp_path >>
          /\ pc' = "resolve"
     \/ /\ Discovered \subseteq Range(yielded)
        /\ pc' = "summary"
        /\ UNCHANGED << video, yielded, counters, mp3_filepath, mp3_temp_path >>
  /\ UNCHANGED << task, run, pass, fs, dirs, reported, fs0, ghost, faults,
                  outcome >>

\* lines 90-112 and 167-186: derive the destination, os.makedirs, and skip
\* the file when the destination exists.  os.makedirs raises only when it
\* has to create the directory.
ResolveAndCheck ==
  /\ pc = "resolve"
  /\ LET path == Mp3Filepath(video, append_extension) IN
     /\ mp3_filepath' = path
     /\ mp3_temp_path' = IF pass = 1 THEN TempPath(path) ELSE mp3_temp_path
     /\ \/ /\ path.dir \notin dirs
           /\ Fault
           /\ pc' = "exc"
           /\ UNCHANGED << dirs, counters, outcome >>
        \/ /\ NoFault
           /\ dirs' = dirs \cup {path.dir}
           /\ IF PathExists(fs, path)
              THEN /\ counters' = CountSkipped(counters)
                   /\ outcome' = [outcome EXCEPT ![video] = "skipped"]
                   /\ pc' = "loop"
              ELSE /\ pc' = IF pass = 1 THEN "tmpclean" ELSE "invoke"
                   /\ UNCHANGED << counters, outcome >>
  /\ UNCHANGED << task, run, pass, video, yielded, fs, reported, fs0, ghost >>

\* lines 115-117: remove a temp file left by an earlier run
CleanStaleTemp ==
  /\ pc = "tmpclean"
  /\ IF PathExists(fs, mp3_temp_path)
     THEN \/ fs' = Remove(fs, mp3_temp_path) /\ pc' = "invoke" /\ NoFault
          \/ pc' = "exc" /\ Fault /\ UNCHANGED fs
     ELSE pc' = "invoke" /\ NoFault /\ UNCHANGED fs
  /\ UNCHANGED << task, run, pass, video, yielded, counters, mp3_filepath,
                  mp3_temp_path, dirs, reported, fs0, ghost, outcome >>

\* lines 124 and 190: subprocess.run starts ffmpeg, or raises because the
\* process cannot be started; with no ffmpeg on the execution path it
\* raises FileNotFoundError every time
ToolStart ==
  /\ pc = "invoke"
  /\ \/ /\ ffmpeg_found
        /\ pc' = "running"
        /\ inv' = [inv EXCEPT ![video] = @ + 1]
        /\ NoFault
     \/ /\ ffmpeg_found
        /\ pc' = "exc"
        /\ Fault
        /\ UNCHANGED inv
     \/ /\ ~ffmpeg_found
        /\ pc' = "exc"
        /\ NoFault
        /\ UNCHANGED inv
  /\ UNCHANGED << task, run, pass, video, yielded, counters, mp3_filepath,
                  mp3_temp_path, fs, dirs, reported, fs0, toolFailed,
                  interrupted, intr, outcome >>

\* ffmpeg has opened its output file and written a part of it
ToolWrite ==
  /\ pc = "running"
  /\ ~PathExists(fs, ToolOutput)
  /\ fs' = Put(fs, ToolOutput, [kind |-> "partial", src |-> video, run |-> run])
  /\ UNCHANGED << task, run, pass, pc, video, yielded, counters, mp3_filepath,
                  mp3_temp_path, dirs, reported, fs0, ghost, faults, outcome >>

\* ffmpeg exits 0: its output file is complete
ToolExitZero ==
  /\ pc = "running"
  /\ fs' = Put(fs, ToolOutput, [kind |-> "out", src |-> video, run |-> run])
  /\ pc' = IF pass = 1 THEN "rename" ELSE "count"
  /\ UNCHANGED << task, run, pass, video, yielded, counters, mp3_filepath,
                  mp3_temp_path, dirs, reported, fs0, ghost, faults, outcome >>

\* ffmpeg exits non-zero: check=True raises CalledProcessError
ToolExitNonZero ==
  /\ pc = "running"
  /\ Fault
  /\ toolFailed' = toolFailed \cup {video}
  /\ pc' = "cpe"
  /\ UNCHANGED << task, run, pass, video, yielded, counters, mp3_filepath,
                  mp3_temp_path, fs, dirs, reported, fs0, inv, interrupted,
                  intr, outcome >>

\* subprocess.run raises another exception while ffmpeg runs (its captured
\* output cannot be decoded, ...): run() kills ffmpeg and re-raises
ToolRaise ==
  /\ pc = "running"
  /\ Fault
  /\ pc' = "exc"
  /\ UNCHANGED << task, run, pass, video, yielded, counters, mp3_filepath,
                  mp3_temp_path, fs, dirs, reported, fs0, ghost, outcome >>

\* line 127: os.rename(mp3_temp_path, mp3_filepath)
RenameTemp ==
  /\ pc = "rename"
  /\ \/ /\ fs' = Rename(fs, mp3_temp_path, mp3_filepath)
        /\ pc' = "count"
        /\ NoFault
     \/ /\ pc' = "exc"
        /\ Fault
        /\ UNCHANGED fs
  /\ UNCHANGED << task, run, pass, video, yielded, counters, mp3_filepath,
                  mp3_temp_path, dirs, reported, fs0, ghost, outcome >>

\* lines 129 and 191: counters['converted'] += 1
CountSuccess ==
  /\ pc = "count"
  /\ counters' = CountConverted(counters)
  /\ outcome' = [outcome EXCEPT ![video] = "converted"]
  /\ pc' = "loop"
  /\ UNCHANGED << task, run, pass, video, yielded, mp3_filepath,
                  mp3_temp_path, fs, dirs, reported, fs0, ghost, faults >>

\* lines 132-136 and 194-198: except subprocess.CalledProcessError
HandleToolFailure ==
  /\ pc = "cpe"
  /\ counters' = CountFailed(counters)
  /\ outcome' = [outcome EXCEPT ![video] = "failed"]
  /\ pc' = "cpe_clean"
  /\ UNCHANGED << task, run, pass, video, yielded, mp3_filepath,
                  mp3_temp_path, fs, dirs, reported, fs0, ghost, faults >>

\* lines 138-140 (the temp file) and 199-201 (the destination)
CleanupToolFailure ==
  /\ pc = "cpe_clean"
  /\ LET target == IF pass = 1 THEN mp3_temp_path ELSE mp3_filepath IN
     fs' = IF target # NoPath /\ PathExists(fs, target)
           THEN Remove(fs, target) ELSE fs
  /\ pc' = "loop"
  /\ UNCHANGED << task, run, pass, video, yielded, counters, mp3_filepath,
                  mp3_temp_path, dirs, reported, fs0, ghost, faults, outcome >>

\* variant: an unexpected exception ends the loop instead of the file
HandleUnexpected_Abort ==
  /\ pc = "exc"
  /\ counters' = CountFailed(counters)
  /\ outcome' = [outcome EXCEPT ![video] = "failed"]
  /\ pc' = "summary"
  /\ UNCHANGED << task, run, pass, video, yielded, mp3_filepath,
                  mp3_temp_path, fs, dirs, reported, fs0, ghost, faults >>

\* lines 141-143 and 202-204: except Exception
HandleUnexpected ==
  /\ pc = "exc"
  /\ counters' = CountFailed(counters)
  /\ outcome' = [outcome EXCEPT ![video] = "failed"]
  /\ pc' = IF pass = 1 THEN "exc_clean" ELSE "loop"
  /\ UNCHANGED << task, run, pass, video, yielded, mp3_filepath,
                  mp3_temp_path, fs, dirs, reported, fs0, ghost, faults >>

\* lines 145-147: only the first loop cleans up after an unexpected exception
CleanupUnexpected ==
  /\ pc = "exc_clean"
  /\ fs' = IF mp3_temp_path # NoPath /\ PathExists(fs, mp3_temp_path)
           THEN Remove(fs, mp3_temp_path) ELSE fs
  /\ pc' = "loop"
  /\ UNCHANGED << task, run, pass, video, yielded, counters, mp3_filepath,
                  mp3_temp_path, dirs, reported, fs0, ghost, faults, outcome >>

\* positions inside a file loop
LoopPcs ==
  { "loop", "resolve", "tmpclean", "invoke", "running", "rename", "count",
    "cpe", "cpe_clean", "exc", "exc_clean" }

\* KeyboardInterrupt while a file loop runs.  Inside the first loop it is
\* caught at line 149 and the finally clause follows; in the second loop
\* nothing catches it (it is not an Exception, so neither line 202 nor line
\* 261 does) and the process dies.  A running ffmpeg is killed by
\* subprocess.run; its output file stays as it is.
Interrupt ==
  /\ pc \in LoopPcs
  /\ intr < MaxInterrupts
  /\ intr' = intr + 1
  /\ interrupted' = TRUE
  /\ pc' = IF pass = 1 THEN "summary" ELSE "killed"
  /\ UNCHANGED << task, run, pass, video, yielded, counters, mp3_filepath,
                  mp3_temp_path, fs, dirs, reported, fs0, inv, toolFailed,
                  faults, outcome >>

\* the first loop was left through the handler of line 149: in the second
\* loop an interrupt never reaches the Summary line
LoopInterrupted == pass = 1 /\ interrupted

\* lines 154-156: finally logs the summary, then the function goes on with
\* line 160: counters are reset and the second loop starts.  The locals
\* video_filepath, mp3_filepath and mp3_temp_path of the first loop are dead
\* here (the second loop assigns them before it reads them).
FinishFirstLoop ==
  /\ pc = "summary"
  /\ pass = 1
  /\ reported' = Append(reported, pass)
  /\ pass' = 2
  /\ counters' = ZeroCounters
  /\ yielded' = <<>>
  /\ outcome' = [e \in EntryIds |-> "none"]
  /\ video' = 0
  /\ mp3_filepath' = NoPath
  /\ mp3_temp_path' = NoPath
  /\ pc' = "loop"
  /\ UNCHANGED << task, run, fs, dirs, fs0, ghost, faults >>

\* lines 206-207: the summary of the second loop, then the function returns
FinishSecondLoop ==
  /\ pc = "summary"
  /\ pass = 2
  /\ reported' = Append(reported, pass)
  /\ pc' = "done"
  /\ UNCHANGED << task, run, pass, video, yielded, counters, mp3_filepath,
                  mp3_temp_path, fs, dirs, fs0, ghost, faults, outcome >>

\* the program is started again for the same task on the same directories,
\* after the previous call has returned
StartRun ==
  /\ pc = "done"
  /\ run < MaxRuns
  /\ run' = run + 1
  /\ pass' = 1
  /\ pc' = "loop"
  /\ video' = 0
  /\ yielded' = <<>>
  /\ counters' = ZeroCounters
  /\ mp3_filepath' = NoPath
  /\ mp3_temp_path' = NoPath
  /\ reported' = <<>>
  /\ fs0' = fs
  /\ inv' = [e \in EntryIds |-> 0]
  /\ toolFailed' = {}
  /\ outcome' = [e \in EntryIds |-> "none"]
  /\ interrupted' = FALSE
  /\ UNCHANGED << task, fs, dirs, intr, faults >>

Next ==
  \/ LoopNext
  \/ ResolveAndCheck
  \/ CleanStaleTemp
  \/ ToolStart
  \/ ToolWrite
  \/ ToolExitZero
  \/ ToolExitNonZero
  \/ ToolRaise
  \/ RenameTemp
  \/ CountSuccess
  \/ HandleToolFailure
  \/ CleanupToolFailure
  \/ HandleUnexpected
  \/ CleanupUnexpected
  \/ Interrupt
  \/ FinishFirstLoop
  \/ FinishSecondLoop
  \/ StartRun

Spec == Init /\ [][Next]_vars

TypeOK ==
  /\ pc \in LoopPcs \cup {"summary", "done", "killed"}
  /\ pass \in {1, 2}
  /\ run \in 1..MaxRuns
  /\ video \in EntryIds \cup {0}

(***************************************************************************)
(* main(), lines 211-263, from the parsed command line to the exit of the  *)
(* process.  The call of convert_videos_to_mp3 is one step here; Spec      *)
(* follows what happens inside it.                                         *)
(***************************************************************************)

\* the state of convert_videos_to_mp3
runner ==
  << run, pass, pc, video, yielded, counters, mp3_filepath, mp3_temp_path,
     fs, dirs, reported, fs0, inv, toolFailed, outcome, interrupted, intr,
     faults >>

\* convert_videos_to_mp3 is not running
RunnerIdle ==
  /\ run = 1
  /\ pass = 1
  /\ pc = "idle"
  /\ video = 0
  /\ yielded = <<>>
  /\ counters = ZeroCounters
  /\ mp3_filepath = NoPath
  /\ mp3_temp_path = NoPath
  /\ fs = [p \in {} |-> OldContent]
  /\ dirs = {}
  /\ reported = <<>>
  /\ fs0 = fs
  /\ inv = [e \in EntryIds |-> 0]
  /\ toolFailed = {}
  /\ outcome = [e \in EntryIds |-> "none"]
  /\ interrupted = FALSE
  /\ intr = 0
  /\ faults = 0

\* what argparse can return for the options of lines 216-226
ArgsSet ==
  [config : {"None", "cfg.json"}, input : {"None", "in", "nodir"},
   output : {"None", "out"}, bitrate : {"None", "128k"},
   logfile : {"None"}, recursive : {"None", "True"},
   append_extension : {"True", "False"}]

\* 'tasks' lists a configuration file may hold; main never reads the key
TaskLists ==
  { <<>>,
    << [input_directory |-> "nodir", output_directory |-> "out"],
       [input_directory |-> "in", output_directory |-> "out"] >>,
    << [input_directory |-> "in", output_directory |-> "out"],
       [input_directory |-> "nodir", output_directory |-> "out"],
       [input_directory |-> "in2", output_directory |-> "out2"] >> }

\* JSON objects json.load can return: a key is absent, null, or has a value
ConfigContents ==
  [input_directory : {"absent", "in", "nodir"},
   output_directory : {"absent", "out"},
   bitrate : {"absent", "None", "256k"},
   log_file : {"absent"},
   recursive_search : {"absent", "None", "True", "False"},
   append_source_extension : {"absent", "None", "True", "False"},
   tasks : TaskLists]

\* the file args.config names: open or json.load raises, or it parses
ConfigFiles ==
  [state : {"unreadable", "malformed"}, content : {EmptyConfig}]
    \cup [state : {"ok"}, content : ConfigContents]

InitMain ==
  /\ args \in ArgsSet
  /\ cfgfile \in ConfigFiles
  /\ args.config = "None" => cfgfile = [state |-> "ok", content |-> EmptyConfig]
  /\ config = EmptyConfig
  /\ final_config = NoConfig
  /\ mainpc = "start"
  /\ status = -1
  /\ called = <<>>
  /\ ffmpeg_found \in BOOLEAN
  /\ tree = {}
  /\ recursive = FALSE
  /\ append_extension = TRUE
  /\ NamesIdle
  /\ RunnerIdle

\* sys.exit(code), or main returns (code 0)
Exit(code) == mainpc' = "exit" /\ status' = code

\* lines 230-237: load the configuration file when -c names one
LoadConfig ==
  /\ mainpc = "start"
  /\ IF args.config # "None"
     THEN IF cfgfile.state = "ok"
          THEN config' = cfgfile.content /\ mainpc' = "merge"
                 /\ UNCHANGED status
          ELSE Exit(1) /\ UNCHANGED config
     ELSE mainpc' = "merge" /\ UNCHANGED << config, status >>
  /\ UNCHANGED << args, cfgfile, final_config, called, ffmpeg_found, tree,
                  recursive, append_extension, names, runner >>

\* lines 238-246: merge the command line over the configuration file
BuildFinalConfig ==
  /\ mainpc = "merge"
  /\ final_config' = MergeConfig(args, config)
  /\ mainpc' = "mandatory"
  /\ UNCHANGED << args, cfgfile, config, status, called, ffmpeg_found, tree,
                  recursive, append_extension, names, runner >>

\* lines 247-249: both directories are mandatory
CheckMandatory ==
  /\ mainpc = "mandatory"
  /\ IF ~Truthy(final_config.input) \/ ~Truthy(final_config.output)
     THEN Exit(1)
     ELSE mainpc' = "isdir" /\ UNCHANGED status
  /\ UNCHANGED << args, cfgfile, config, final_config, called, ffmpeg_found,
                  tree, recursive, append_extension, names, runner >>

\* lines 250-254: the input directory must exist; then the task is run
CheckInputDir ==
  /\ mainpc = "isdir"
  /\ IF final_config.input \notin ExistingDirs
     THEN Exit(1) /\ UNCHANGED called
     ELSE /\ mainpc' = "convert"
          /\ called' = Append(called, final_config.input)
          /\ UNCHANGED status
  /\ UNCHANGED << args, cfgfile, config, final_config, ffmpeg_found, tree,
                  recursive, append_extension, names, runner >>

\* lines 254-260: convert_videos_to_mp3 returns and main ends
ConvertReturns ==
  /\ mainpc = "convert"
  /\ Exit(0)
  /\ UNCHANGED << args, cfgfile, config, final_config, called, ffmpeg_found,
                  tree, recursive, append_extension, names, runner >>

\* lines 261-263: an exception leaves convert_videos_to_mp3
ConvertRaises ==
  /\ mainpc = "convert"
  /\ Exit(1)
  /\ UNCHANGED << args, cfgfile, config, final_config, called, ffmpeg_found,
                  tree, recursive, append_extension, names, runner >>

NextMain ==
  \/ LoadConfig
  \/ BuildFinalConfig
  \/ CheckMandatory
  \/ CheckInputDir
  \/ ConvertReturns
  \/ ConvertRaises

SpecMain == InitMain /\ [][NextMain]_vars

(***************************************************************************)
(* clean_filename applied to base names built from a stem, up to two       *)
(* tag-like segments and a trailer.                                        *)
(***************************************************************************)
Stems == { <<>>, <<"a">>, <<"a", "b">> }

TagLike ==
  { <<>>,
    <<"_", "r", "7", "2", "0", "P">>, <<"_", "R", "4", "8", "0", "p">>,
    <<"_", "r", "3", "6", "0", "p">>, <<"_", "R", "2", "4", "0", "P">>,
    <<"_", "r", "1", "0", "8", "0", "P">>, <<"_", "r", "7", "2", "0">>,
    <<"r", "7", "2", "0", "P">> }

Trailers == { <<>>, <<"x">>, <<"\n">> }

BaseNames ==
  { s \o t1 \o t2 \o tr : s \in Stems, t1 \in TagLike, t2 \in TagLike,
                          tr \in Trailers }

\* main has not started
MainNotStarted ==
  /\ args = [config |-> "None", input |-> "None", output |-> "None",
             bitrate |-> "None", logfile |-> "None", recursive |-> "None",
             append_extension |-> "True"]
  /\ cfgfile = [state |-> "ok", content |-> EmptyConfig]
  /\ config = EmptyConfig
  /\ final_config = NoConfig
  /\ mainpc = "start"
  /\ status = -1
  /\ called = <<>>

InitNames ==
  /\ clean_arg \in BaseNames
  /\ clean_result = Unset
  /\ ffmpeg_found = TRUE
  /\ tree = {}
  /\ recursive = FALSE
  /\ append_extension = TRUE
  /\ MainNotStarted
  /\ RunnerIdle

\* line 94: cleaned_base_name = clean_filename(base_name)
ApplyClean ==
  /\ clean_result = Unset
  /\ clean_result' = clean_filename(clean_arg)
  /\ UNCHANGED << clean_arg, ffmpeg_found, tree, recursive, append_extension,
                  mainState, runner >>

NextNames == ApplyClean

SpecNames == InitNames /\ [][NextNames]_vars

(***************************************************************************)
(* find_video_files consumed on its own, over every tree the candidate     *)
(* entries can form: regular files, a special file and a directory.        *)
(***************************************************************************)
InitDiscovery ==
  /\ tree \in SUBSET EntryIds
  /\ recursive \in BOOLEAN
  /\ append_extension = TRUE
  /\ ffmpeg_found = TRUE
  /\ NamesIdle
  /\ MainNotStarted
  /\ RunnerIdle

\* lines 49 and 54: the generator yields its next path
GeneratorYield ==
  /\ pc = "idle"
  /\ LET rest == find_video_files(tree, recursive) \ Range(yielded) IN
     /\ rest # {}
     /\ yielded' =
          Append(yielded, CHOOSE e \in rest : \A o \in rest : e <= o)
  /\ UNCHANGED << task, run, pass, pc, video, counters, mp3_filepath,
                  mp3_temp_path, fs, dirs, reported, fs0, inv, toolFailed,
                  outcome, interrupted, intr, faults >>

\* the listing is used up and the generator returns
GeneratorExhausted ==
  /\ pc = "idle"
  /\ find_video_files(tree, recursive) \subseteq Range(yielded)
  /\ pc' = "done"
  /\ UNCHANGED << task, run, pass, video, yielded, counters, mp3_filepath,
                  mp3_temp_path, fs, dirs, reported, fs0, inv, toolFailed,
                  outcome, interrupted, intr, faults >>

NextDiscovery ==
  \/ GeneratorYield
  \/ GeneratorExhausted

SpecDiscovery == InitDiscovery /\ [][NextDiscovery]_vars

(***************************************************************************)
(* Properties.                                                             *)
(***************************************************************************)

\* the call has ended: it returned, or an uncaught KeyboardInterrupt ended it
Stopped == pc \in {"done", "killed"}

\* the end of a file loop that no interrupt cut short
LoopEndedNormally ==
  \/ pc = "summary" /\ ~LoopInterrupted
  \/ pc = "done"

\* counters['converted'] + counters['skipped'] + counters['failed']
Accounted == counters.converted + counters.skipped + counters.failed

\* C1: in one call of convert_videos_to_mp3 ffmpeg is invoked at most once
\* for each discovered source file, whatever the outcome of the invocation
\* (stated for the runs no user interrupt disturbs, which the claim covers).
C1_AtMostOneInvocation == ~interrupted => \A e \in EntryIds : inv[e] <= 1

\* C2: every time the counters are reported at the end of a file loop, ended
\* normally or by a user interrupt, found = converted + skipped + failed.
C2_Conservation == pc = "summary" => counters.found = Accounted

\* C2 (amended): at the report of a loop that ended normally found =
\* converted + skipped + failed; at the report of a loop ended by a user
\* interrupt found exceeds the sum by at most 1, the file in flight.
C2_ConservationAmended ==
  pc = "summary" =>
    IF LoopInterrupted
    THEN counters.found - Accounted \in {0, 1}
    ELSE counters.found = Accounted

\* a report after an interrupt that hit the second file while in flight, the
\* first one having failed
C2_Witness ==
  /\ pc = "summary"
  /\ LoopInterrupted
  /\ counters.found = 2
  /\ counters.failed = 1
  /\ Accounted = 1

\* C3: if ffmpeg exited non-zero for a source file, then after the run no
\* file exists at its canonical destination path and the file was counted
\* as failed, not as converted (stated for the runs no user interrupt
\* disturbs, which the claim covers).
C3_FailedLeavesNoDestination ==
  (pc = "done" /\ ~interrupted) =>
    \A e \in toolFailed :
      /\ Dest(e) \notin DOMAIN fs
      /\ outcome[e] = "failed"

\* C4: when a user interrupt arrived during a run, once the program has
\* stopped a file exists at a canonical destination path only if it was
\* there before the run or ffmpeg exited 0 for it.
C4_NoPartialAtDestination ==
  (Stopped /\ interrupted) =>
    \A e \in Discovered :
      Dest(e) \in DOMAIN fs =>
        \/ Dest(e) \in DOMAIN fs0 /\ fs[Dest(e)] = fs0[Dest(e)]
        \/ fs[Dest(e)].kind = "out"

\* C5: after a user interrupt was received during a run, no further source
\* file is fetched from the generator and ffmpeg is not invoked again.
C5_NoProcessingAfterInterrupt ==
  [][(interrupted /\ run' = run) =>
       /\ inv' = inv
       /\ ~(pc = "loop" /\ pc' = "resolve")]_vars

\* C6: when the function is left, the summary of every file loop it entered
\* has been logged, also when a user interrupt ended the loop.
C6_SummaryAlwaysLogged ==
  Stopped => \A p \in 1..pass : \E i \in DOMAIN reported : reported[i] = p

\* C7: a source file whose canonical destination path held a file before the
\* run is never handed to ffmpeg, its destination file stays as it was, and
\* when the loop has ended normally the file has been counted as skipped.
C7_ExistingDestinationUntouched ==
  \A e \in Discovered :
    Dest(e) \in DOMAIN fs0 =>
      /\ inv[e] = 0
      /\ Dest(e) \in DOMAIN fs
      /\ fs[Dest(e)] = fs0[Dest(e)]
      /\ outcome[e] \in {"none", "skipped"}
      /\ LoopEndedNormally => outcome[e] = "skipped"

\* a first run has ended in which a file found its destination already there
C7_Witness ==
  /\ run = 1
  /\ pc = "done"
  /\ \E e \in Discovered :
       /\ Dest(e) \in DOMAIN fs0
       /\ outcome[e] = "skipped"
       /\ counters.skipped >= 1

\* the run before this one left, for every discovered file, the output ffmpeg
\* produced for that file
PreviousRunConvertedAll ==
  /\ run > 1
  /\ Discovered # {}
  /\ \A e \in Discovered :
       /\ Dest(e) \in DOMAIN fs0
       /\ fs0[Dest(e)].kind = "out"
       /\ fs0[Dest(e)].src = e

\* C8: in a run that follows a run which converted every file, ffmpeg is
\* never invoked, every output of the earlier run stays as it was, converted
\* stays 0, and a loop that ends normally reports skipped = found = the
\* number of discovered files.
C8_SecondRunSkipsAll ==
  PreviousRunConvertedAll =>
    /\ \A e \in Discovered :
         /\ inv[e] = 0
         /\ Dest(e) \in DOMAIN fs
         /\ fs[Dest(e)] = fs0[Dest(e)]
    /\ counters.converted = 0
    /\ counters.failed = 0
    /\ LoopEndedNormally =>
         /\ counters.skipped = Cardinality(Discovered)
         /\ counters.found = Cardinality(Discovered)

\* the second run of a task with two files has ended, the first run having
\* converted both
C8_Witness ==
  /\ PreviousRunConvertedAll
  /\ Cardinality(Discovered) = 2
  /\ pc = "done"
  /\ counters.skipped = 2

C10_NoCollision ==
  \A e1, e2 \in Range(yielded) : e1 # e2 => Dest(e1) # Dest(e2)

\* C11: merge precedence is built-in default < configuration file < command
\* line, per field, and a layer's value wins only if it is present and
\* non-null there: bitrate, recursive_search and append_source_extension,
\* when absent or null in the file and not given on the command line,
\* resolve to '192k', false and true.
C11_MergePrecedence ==
  LET Layered(cli, file, default) ==
        IF cli # "None" THEN cli
        ELSE IF file \notin {"absent", "None"} THEN file
        ELSE default
  IN final_config # NoConfig =>
       /\ final_config.bitrate = Layered(args.bitrate, config.bitrate, "192k")
       /\ final_config.recursive =
            Layered(args.recursive, config.recursive_search, "False")
       /\ final_config.append_extension =
            Layered(IF args.append_extension = "False" THEN "False"
                    ELSE "None",
                    config.append_source_extension, "True")

\* C12: each fatal precondition failure (no ffmpeg on the execution path,
\* missing input or output setting, input directory that does not exist,
\* unreadable or malformed configuration file) ends the process with a
\* non-zero status before any source file is processed.
C12_FatalPreconditionsExit ==
  LET fatal ==
        \/ ~ffmpeg_found
        \/ args.config # "None" /\ cfgfile.state # "ok"
        \/ /\ final_config # NoConfig
           /\ \/ ~Truthy(final_config.input)
              \/ ~Truthy(final_config.output)
              \/ final_config.input \notin ExistingDirs
  IN fatal => /\ called = <<>>
              /\ mainpc = "exit" => status # 0

\* C15: with a 'tasks' list in the configuration file, a task whose
\* input_directory does not exist is skipped and every valid task of the
\* list is still executed, in declared order.
C15_LaterTasksRun ==
  LET Valid(t) == t.input_directory \in ExistingDirs
      due == SelectSeq(config.tasks, Valid)
  IN mainpc = "exit" /\ config.tasks # <<>> /\ args.input = "None" =>
       /\ Len(called) = Len(due)
       /\ \A i \in 1..Len(due) : called[i] = due[i].input_directory

\* C13: clean_filename removes exactly one trailing tag "_r" + (720|480|360|
\* 240) + "P", matched case-insensitively and only at the very end of the
\* base name, in one pass (of two trailing tags the first is kept); a base
\* name that does not end in such a tag is returned unchanged.
C13_RemovesOneTrailingTag ==
  LET n == Len(clean_arg)
      tagged ==
        /\ n >= 6
        /\ clean_arg[n - 5] = "_"
        /\ clean_arg[n - 4] \in {"r", "R"}
        /\ SubSeq(clean_arg, n - 3, n - 1) \in Resolutions
        /\ clean_arg[n] \in {"p", "P"}
  IN clean_result # Unset =>
       clean_result = IF tagged THEN SubSeq(clean_arg, 1, n - 6)
                      ELSE clean_arg

\* C17: find_video_files yields an entry if and only if it is a regular
\* file whose lowercased extension is one of mp4, mov, mkv, avi, m4v, flv,
\* webm: direct children of the root when recursive is false, descendants
\* at any depth when it is true; directories and special files are never
\* yielded in either mode.
C17_YieldsExactlyRegularVideoFiles ==
  LET wanted ==
        { e \in tree : /\ Entries[e].kind = "file"
                       /\ HasVideoExtension(Entries[e].name)
                       /\ recursive \/ Entries[e].dir = source_dir }
  IN /\ Range(yielded) \subseteq wanted
     /\ pc = "done" => wanted \subseteq Range(yielded)

\* C14: the destination path is a function of the source path, the source
\* root, the output root and append_extension alone: the source's directory
\* relative to the source root, mirrored under the output root, joined with
\* "{cleaned}_{lowercased extension}.mp3" when append_extension is true and
\* "{cleaned}.mp3" otherwise; every resolution of the same source, in either
\* loop and in any run, gives this path.
C14_CanonicalDestination ==
  [][pc = "resolve" /\ intr' = intr =>
       LET e == Entries[video]
           p == splitext(e.name)
           cleaned == clean_filename(p.base)
           ext == [i \in 1..(Len(p.ext) - 1) |-> LowerChar(p.ext[i + 1])]
           mp3 == <<".", "m", "p", "3">>
       IN /\ mp3_filepath'.dir =
               output_dir \o SubSeq(e.dir, Len(source_dir) + 1, Len(e.dir))
          /\ mp3_filepath'.name =
               IF append_extension THEN cleaned \o <<"_">> \o ext \o mp3
               ELSE cleaned \o mp3]_vars

\* C14 witness: the second loop has resolved in/sub/a.mp4 again, to
\* out/sub/a_mp4.mp3
C14_Witness ==
  /\ pass = 2
  /\ pc = "invoke"
  /\ video = 6
  /\ mp3_filepath = [dir |-> <<"out", "sub">>,
                     name |-> <<"a", "_", "m", "p", "4", ".", "m", "p", "3">>]

\* C16: when the processing of a file ends with an unexpected exception,
\* the file is counted as failed exactly once, no partial output is left at
\* its destination path, and the loop goes on to the next file.
C16_UnexpectedExceptionCleansUp ==
  [][intr' = intr /\ pc \in {"exc", "exc_clean"} =>
       ( /\ pc' \in {"exc_clean", "loop"}
         /\ pc' = "loop" =>
              /\ outcome'[video] = "failed"
              /\ counters'.failed =
                   Cardinality({ e \in EntryIds : outcome'[e] = "failed" })
              /\ mp3_filepath \in DOMAIN fs' =>
                   fs'[mp3_filepath].kind # "partial" )]_vars

C19_FirstWriterWins ==
  \A i, j \in 1..Len(yielded) :
    LET a == yielded[i]
        b == yielded[j]
    IN i < j /\ Dest(a) = Dest(b) /\ outcome[a] = "converted" =>
         /\ outcome[b] \in {"none", "skipped"}
         /\ video = b => pc \in {"resolve", "loop", "summary", "done", "killed"}
         /\ Dest(a) \in DOMAIN fs
         /\ fs[Dest(a)] = [kind |-> "out", src |-> a, run |-> run]

\* C19 witness: a loop has ended with the earlier of two colliding files
\* converted and the later one skipped
C19_Witness ==
  /\ pc = "summary"
  /\ \E i, j \in 1..Len(yielded) :
       /\ i < j
       /\ Dest(yielded[i]) = Dest(yielded[j])
       /\ outcome[yielded[i]] = "converted"
       /\ outcome[yielded[j]] = "skipped"

====
